---- MODULE Spec2Model ----
(***************************************************************************)
(* Model of src/package-manager/modules/pnpm/read.ts: the lockfile read    *)
(* pipeline (readWantedLockfile -> _readWantedLockfile -> _read) and the   *)
(* schema normalizer convertFromLockfileFileMutable.                       *)
(*                                                                         *)
(* Version strings are sequences of their dot-separated numeric            *)
(* components ("6.0" is <<6,0>>, "6" is <<6>>, "6.0.0" is <<6,0,0>>).      *)
(* JavaScript undefined / a missing key is "undef", null is "null".        *)
(* An optional document (Lockfile | null, or what yaml.load returned) is a *)
(* sequence of length at most one: <<>> is null/undefined, <<d>> is d.     *)
(***************************************************************************)
EXTENDS Integers, Sequences, FiniteSets, TLC

VARIABLES
    file,          \* what is on disk at the candidate path (input)
    opts,          \* the caller's options (input)
    pc,            \* position inside the call
    lockfile,      \* _read: let lockfile
    hadConflicts,  \* _read: let hadConflicts
    i,             \* index of the entry the .some callback is visiting
    warns,         \* logger.warn calls, in order
    infos,         \* logger.info calls, in order
    error,         \* the error thrown out of the call, if any
    result,        \* _readWantedLockfile: let result
    ret,           \* value returned by readWantedLockfile
    ndoc,          \* normalizer harness: the document object being mutated
    nfirst,        \* normalizer harness: the object after the first call
    ninput,        \* normalizer harness: the object as parsed
    napplied       \* normalizer harness: number of calls made

vars == <<file, opts, pc, lockfile, hadConflicts, i, warns, infos, error,
          result, ret, ndoc, nfirst, ninput, napplied>>

readVars == <<file, opts, pc, lockfile, hadConflicts, i, warns, infos, error,
              result, ret>>

normVars == <<ndoc, nfirst, ninput, napplied>>

----------------------------------------------------------------------------
(* Bounds *)

MaxWanted == 2      \* longest wantedVersions list
MaxMajor == 7       \* majors range over 6..MaxMajor
MaxMinor == 1       \* minors range over 0..MaxMinor
MaxApply == 2       \* normalizer harness: calls of the normalizer

----------------------------------------------------------------------------
(* Constants of the program and of its imports *)

WANTED_LOCKFILE == "pnpm-lock.yaml"

DEPENDENCIES_FIELDS == <<"optionalDependencies", "dependencies", "devDependencies">>

CarveOut == <<6, 1>>

PkgPath == "/proj"

\* path.join(pkgPath, lockfileName)
LockfilePath(pkgPath) == <<pkgPath, WANTED_LOCKFILE>>

----------------------------------------------------------------------------
(* Version tokens *)

Majors == 6..MaxMajor
Minors == 0..MaxMinor

\* two-component compact versions "M.m"
Comvers == {<<M, m>> : M \in Majors, m \in Minors}

\* lockfileVersion as found in the parsed document: a string, a YAML number
\* (value M.m) or missing.
Tokens ==
    {[kind |-> "missing", comps |-> <<>>]}
    \cup {[kind |-> "str", comps |-> c] : c \in Comvers}
    \cup {[kind |-> "str", comps |-> <<M>>] : M \in Majors}
    \cup {[kind |-> "num", comps |-> c] : c \in Comvers}

\* (lockfile.lockfileVersion ?? 0).toString()
TokenToString(t) ==
    CASE t.kind = "missing" -> <<0>>
      [] t.kind = "str" -> t.comps
      [] t.kind = "num" -> IF t.comps[2] = 0 THEN <<t.comps[1]>> ELSE t.comps

\* comver-to-semver: no dot -> append ".0.0", otherwise append ".0"
comverToSemver(comver) ==
    IF Len(comver) = 1 THEN comver \o <<0, 0>> ELSE comver \o <<0>>

\* semver.major
semverMajor(v) == v[1]

\* semver.gt on MAJOR.MINOR.PATCH
semverGt(a, b) ==
    \/ a[1] > b[1]
    \/ a[1] = b[1] /\ a[2] > b[2]
    \/ a[1] = b[1] /\ a[2] = b[2] /\ a[3] > b[3]

\* lockfile.lockfileVersion !== '6.1'  (strict: only the string matches)
IsCarveOutLiteral(t) == t.kind = "str" /\ t.comps = CarveOut

----------------------------------------------------------------------------
(* Documents *)

\* a ProjectSnapshot as the normalizer builds it / as found under importers
Snapshot(sp, meta, pub, opt, dep, dev) ==
    [specifiers |-> sp, dependenciesMeta |-> meta, publishDirectory |-> pub,
     optionalDependencies |-> opt, dependencies |-> dep, devDependencies |-> dev]

NoImporters == [def |-> FALSE, entries |-> [p \in {} |-> Snapshot("undef", "undef", "undef", "undef", "undef", "undef")]]

RootOnly == [def |-> TRUE, entries |-> [p \in {"."} |-> Snapshot("m", "undef", "undef", "undef", "m", "undef")]]

Workspace ==
    [def |-> TRUE,
     entries |-> [p \in {".", "packages/a"} |->
                    IF p = "." THEN Snapshot("m", "m", "undef", "undef", "m", "m")
                    ELSE Snapshot("m", "undef", "dist", "m", "undef", "undef")]]

\* a parsed lockfile object (LockfileFile)
Doc(ver, imp, sp, meta, pub, opt, dep, dev) ==
    [lockfileVersion |-> ver, importers |-> imp, specifiers |-> sp,
     dependenciesMeta |-> meta, publishDirectory |-> pub,
     optionalDependencies |-> opt, dependencies |-> dep, devDependencies |-> dev,
     packages |-> "m"]

FieldValues == {"undef", "null", "m"}

\* every root layout yaml.load can produce for the fields the normalizer reads
AllShapes(ver) ==
    {Doc(ver, imp, sp, meta, pub, opt, dep, dev) :
        imp \in {NoImporters, RootOnly, Workspace},
        sp \in FieldValues, meta \in {"undef", "m"}, pub \in {"undef", "dist"},
        opt \in FieldValues, dep \in FieldValues, dev \in FieldValues}

\* the layouts the read pipeline is run on
ReadShapes(ver) ==
    {Doc(ver, NoImporters, "m", "undef", "undef", "undef", "m", "null"),
     Doc(ver, NoImporters, "undef", "m", "dist", "undef", "undef", "undef"),
     Doc(ver, Workspace, "undef", "undef", "undef", "undef", "undef", "undef")}

ReadDocs == UNION {ReadShapes(t) : t \in Tokens}

\* what mergeLockfileChanges builds: always an object with importers
MergedDocs == {Doc(t, RootOnly, "undef", "undef", "undef", "undef", "undef", "undef") : t \in Tokens}

----------------------------------------------------------------------------
(* convertFromLockfileFileMutable *)

\* the for loop over DEPENDENCIES_FIELDS, from index k on
RECURSIVE MoveDepFields(_, _)
MoveDepFields(d, k) ==
    IF k > Len(DEPENDENCIES_FIELDS) THEN d
    ELSE LET depType == DEPENDENCIES_FIELDS[k] IN
         IF d[depType] # "null"
         THEN MoveDepFields(
                [d EXCEPT !.importers.entries["."][depType] = d[depType],
                          ![depType] = "undef"],
                k + 1)
         ELSE MoveDepFields(d, k + 1)

\* Faulty variant of the for loop: the field is copied but not deleted.
RECURSIVE CopyDepFields(_, _)
CopyDepFields(d, k) ==
    IF k > Len(DEPENDENCIES_FIELDS) THEN d
    ELSE LET depType == DEPENDENCIES_FIELDS[k] IN
         IF d[depType] # "null"
         THEN CopyDepFields([d EXCEPT !.importers.entries["."][depType] = d[depType]], k + 1)
         ELSE CopyDepFields(d, k + 1)

\* the object literal assigned to lockfileFile.importers, and delete specifiers
WithDefaultImporter(lockfileFile) ==
    [lockfileFile EXCEPT
        !.importers =
            [def |-> TRUE,
             entries |-> [p \in {"."} |->
                Snapshot(IF lockfileFile.specifiers \in {"undef", "null"}
                            THEN "empty" ELSE lockfileFile.specifiers,
                         lockfileFile.dependenciesMeta,
                         lockfileFile.publishDirectory,
                         "undef", "undef", "undef")]],
        !.specifiers = "undef"]

\* Faulty variant of convertFromLockfileFileMutable: moved fields stay at the root.
convertWithoutDelete(lockfileFile) ==
    IF ~lockfileFile.importers.def
    THEN CopyDepFields(WithDefaultImporter(lockfileFile), 1)
    ELSE lockfileFile

\* Faulty variant of convertFromLockfileFileMutable: the importers test is
\* missing, so the default importer is rebuilt on every call.
convertAlways(lockfileFile) ==
    MoveDepFields(WithDefaultImporter(lockfileFile), 1)

convertFromLockfileFileMutable(lockfileFile) ==
    IF ~lockfileFile.importers.def
    THEN MoveDepFields(WithDefaultImporter(lockfileFile), 1)
    ELSE lockfileFile

\* revertFromInlineSpecifiersFormatIfNecessary: leaves the root layout and the
\* lockfileVersion that _read looks at as they are
revertFromInlineSpecifiersFormatIfNecessary(d) == d

----------------------------------------------------------------------------
(* Inputs of a read *)

NoValue == [throws |-> TRUE, value |-> <<>>]

\* yaml.load(lockfileRawContent): throws, returns undefined (empty text) or
\* returns an object
YamlResults ==
    {NoValue, [throws |-> FALSE, value |-> <<>>]}
    \cup {[throws |-> FALSE, value |-> <<d>>] : d \in ReadDocs}

\* autofixMergeConflicts(lockfileRawContent): throws or returns the merged object
MergeResults == {NoValue} \cup {[throws |-> FALSE, value |-> <<d>>] : d \in MergedDocs}

\* the file at the candidate path: missing, unreadable, or text with its parse
\* result, whether it has conflict markers (isDiff) and what the merge of its
\* two sides gives (looked at only when the parse fails on text with markers)
Files ==
    {[state |-> s, yaml |-> NoValue, diff |-> FALSE, merged |-> NoValue] : s \in {"ENOENT", "EIO"}}
    \cup {[state |-> "ok", yaml |-> y, diff |-> FALSE, merged |-> NoValue] : y \in YamlResults}
    \cup {[state |-> "ok", yaml |-> y, diff |-> TRUE, merged |-> m] :
            y \in {r \in YamlResults : r.value = <<>>}, m \in MergeResults}
    \cup {[state |-> "ok", yaml |-> y, diff |-> TRUE, merged |-> NoValue] :
            y \in {r \in YamlResults : r.value # <<>>}}

RECURSIVE SeqsUpTo(_, _)
SeqsUpTo(S, n) ==
    IF n = 0 THEN {<<>>}
    ELSE LET shorter == SeqsUpTo(S, n - 1) IN
         shorter \cup {Append(s, x) : s \in {t \in shorter : Len(t) = n - 1}, x \in S}

\* the versions a caller lists in wantedVersions
WantedPool == {<<M, m>> : M \in Majors, m \in {0, MaxMinor}}

Options ==
    {[wantedDefined |-> FALSE, wantedVersions |-> <<>>, ignoreIncompatible |-> b] : b \in BOOLEAN}
    \cup {[wantedDefined |-> TRUE, wantedVersions |-> w, ignoreIncompatible |-> b] :
            w \in SeqsUpTo(WantedPool, MaxWanted), b \in BOOLEAN}

\* _readWantedLockfile always passes autofixMergeConflicts: true
AutofixMergeConflicts == TRUE

NoError == [kind |-> "none", path |-> <<>>]

NoResult == [lockfile |-> <<>>, hadConflicts |-> FALSE]

IdleDoc == Doc([kind |-> "missing", comps |-> <<>>], NoImporters, "undef", "undef", "undef", "undef", "undef", "undef")

----------------------------------------------------------------------------
(* The read pipeline *)

Init ==
    /\ file \in Files
    /\ opts \in Options
    /\ pc = "start"
    /\ lockfile = <<>>
    /\ hadConflicts = FALSE
    /\ i = 0
    /\ warns = <<>>
    /\ infos = <<>>
    /\ error = NoError
    /\ result = NoResult
    /\ ret = <<>>
    /\ ndoc = IdleDoc
    /\ nfirst = IdleDoc
    /\ ninput = IdleDoc
    /\ napplied = 0

\* _read returns to _readWantedLockfile, which assigns result (line 119)
ReturnFromRead(lf, hc) ==
    /\ result' = [lockfile |-> lf, hadConflicts |-> hc]
    /\ pc' = "returned"
    /\ error' = error

\* an error leaves _read, _readWantedLockfile and readWantedLockfile
Throw(kind, path) ==
    /\ error' = [kind |-> kind, path |-> path]
    /\ pc' = "threw"
    /\ result' = result

\* Faulty variant of ReadFile: the ENOENT test is inverted, so a missing file
\* is rethrown and any other read failure is taken for a missing file.
ReadFileInvertedEnoent ==
    /\ pc = "start"
    /\ CASE file.state = "ENOENT" -> Throw("ENOENT", <<>>)
         [] file.state = "EIO" -> ReturnFromRead(<<>>, FALSE)
         [] OTHER -> /\ pc' = "try"
                     /\ UNCHANGED <<error, result>>
    /\ UNCHANGED <<file, opts, lockfile, hadConflicts, i, warns, infos, ret>>
    /\ UNCHANGED normVars

\* lines 43-55
ReadFile ==
    /\ pc = "start"
    /\ CASE file.state = "ENOENT" -> ReturnFromRead(<<>>, FALSE)
         [] file.state = "EIO" -> Throw("EIO", <<>>)
         [] OTHER -> /\ pc' = "try"
                     /\ UNCHANGED <<error, result>>
    /\ UNCHANGED <<file, opts, lockfile, hadConflicts, i, warns, infos, ret>>
    /\ UNCHANGED normVars

\* lines 56-62: yaml.load, convertFromLockfileFileMutable (a TypeError on
\* undefined), revertFromInlineSpecifiersFormatIfNecessary
TryParse ==
    /\ pc = "try"
    /\ IF ~file.yaml.throws /\ file.yaml.value # <<>>
       THEN /\ lockfile' = <<revertFromInlineSpecifiersFormatIfNecessary(
                               convertFromLockfileFileMutable(file.yaml.value[1]))>>
            /\ hadConflicts' = FALSE
            /\ pc' = "check"
       ELSE /\ pc' = "catch"
            /\ UNCHANGED <<lockfile, hadConflicts>>
    /\ UNCHANGED <<file, opts, i, warns, infos, error, result, ret>>
    /\ UNCHANGED normVars

\* lines 63-74
CatchParse ==
    /\ pc = "catch"
    /\ IF ~AutofixMergeConflicts \/ ~file.diff
       THEN /\ Throw("BROKEN_LOCKFILE", LockfilePath(PkgPath))
            /\ UNCHANGED <<lockfile, hadConflicts, infos>>
       ELSE /\ hadConflicts' = TRUE
            /\ IF file.merged.throws
               THEN /\ Throw("MergeFailure", <<>>)
                    /\ UNCHANGED <<lockfile, infos>>
               ELSE /\ lockfile' = <<convertFromLockfileFileMutable(file.merged.value[1])>>
                    /\ infos' = Append(infos, [msg |-> "merged", prefix |-> PkgPath])
                    /\ pc' = "check"
                    /\ UNCHANGED <<error, result>>
    /\ UNCHANGED <<file, opts, i, warns, ret>>
    /\ UNCHANGED normVars

\* line 76
lockfileSemver == comverToSemver(TokenToString(lockfile[1].lockfileVersion))

\* Faulty variant of CheckVersion: the test for an empty wantedVersions is
\* missing, so .some runs over the empty list and yields false.
CheckVersionNoEmptyTest ==
    /\ pc = "check"
    /\ IF lockfile # <<>> /\ Len(opts.wantedVersions) > 0
       THEN /\ pc' = "some"
            /\ i' = 1
       ELSE /\ pc' = "incompatible"
            /\ i' = i
    /\ UNCHANGED <<error, result>>
    /\ UNCHANGED <<file, opts, lockfile, hadConflicts, warns, infos, ret>>
    /\ UNCHANGED normVars

\* lines 75-80 and 94-97, up to the call of .some
CheckVersion ==
    /\ pc = "check"
    /\ IF lockfile # <<>>
       THEN IF ~opts.wantedDefined \/ Len(opts.wantedVersions) = 0
            THEN /\ ReturnFromRead(lockfile, hadConflicts)
                 /\ i' = i
            ELSE /\ pc' = "some"
                 /\ i' = 1
                 /\ UNCHANGED <<error, result>>
       ELSE /\ pc' = "incompatible"
            /\ UNCHANGED <<i, error, result>>
    /\ UNCHANGED <<file, opts, lockfile, hadConflicts, warns, infos, ret>>
    /\ UNCHANGED normVars

DowngradeWarning(wantedVersion) ==
    [msg |-> "downgrade", version |-> wantedVersion, path |-> <<>>, prefix |-> PkgPath]

IgnoreWarning(lockfilePath) ==
    [msg |-> "ignoring", version |-> <<>>, path |-> lockfilePath, prefix |-> PkgPath]

\* Faulty variant of SomeCallback: the '6.1' exemption is missing.
SomeCallbackNoCarveOut ==
    /\ pc = "some"
    /\ i <= Len(opts.wantedVersions)
    /\ LET wantedVersion == opts.wantedVersions[i] IN
       IF semverMajor(lockfileSemver) # semverMajor(comverToSemver(wantedVersion))
       THEN /\ IF i = Len(opts.wantedVersions)
               THEN pc' = "incompatible" /\ i' = i
               ELSE pc' = pc /\ i' = i + 1
            /\ UNCHANGED <<warns, error, result>>
       ELSE /\ warns' = IF semverGt(lockfileSemver, comverToSemver(wantedVersion))
                        THEN Append(warns, DowngradeWarning(wantedVersion))
                        ELSE warns
            /\ ReturnFromRead(lockfile, hadConflicts)
            /\ i' = i
    /\ UNCHANGED <<file, opts, lockfile, hadConflicts, infos, ret>>
    /\ UNCHANGED normVars

\* Faulty variant of SomeCallback: after logging the downgrade warning the
\* callback falls through without returning true, so .some goes on.
SomeCallbackWarnAndGoOn ==
    /\ pc = "some"
    /\ i <= Len(opts.wantedVersions)
    /\ LET wantedVersion == opts.wantedVersions[i]
           sameMajor == semverMajor(lockfileSemver) = semverMajor(comverToSemver(wantedVersion))
           newer == /\ ~IsCarveOutLiteral(lockfile[1].lockfileVersion)
                    /\ semverGt(lockfileSemver, comverToSemver(wantedVersion))
       IN
       IF ~sameMajor \/ newer
       THEN /\ IF i = Len(opts.wantedVersions)
               THEN pc' = "incompatible" /\ i' = i
               ELSE pc' = pc /\ i' = i + 1
            /\ warns' = IF sameMajor THEN Append(warns, DowngradeWarning(wantedVersion)) ELSE warns
            /\ UNCHANGED <<error, result>>
       ELSE /\ warns' = warns
            /\ ReturnFromRead(lockfile, hadConflicts)
            /\ i' = i
    /\ UNCHANGED <<file, opts, lockfile, hadConflicts, infos, ret>>
    /\ UNCHANGED normVars

\* lines 81-96: one call of the .some callback, on entry i
SomeCallback ==
    /\ pc = "some"
    /\ i <= Len(opts.wantedVersions)
    /\ LET wantedVersion == opts.wantedVersions[i] IN
       IF semverMajor(lockfileSemver) # semverMajor(comverToSemver(wantedVersion))
       THEN /\ IF i = Len(opts.wantedVersions)
               THEN pc' = "incompatible" /\ i' = i
               ELSE pc' = pc /\ i' = i + 1
            /\ UNCHANGED <<warns, error, result>>
       ELSE /\ warns' = IF /\ ~IsCarveOutLiteral(lockfile[1].lockfileVersion)
                           /\ semverGt(lockfileSemver, comverToSemver(wantedVersion))
                        THEN Append(warns, DowngradeWarning(wantedVersion))
                        ELSE warns
            /\ ReturnFromRead(lockfile, hadConflicts)
            /\ i' = i
    /\ UNCHANGED <<file, opts, lockfile, hadConflicts, infos, ret>>
    /\ UNCHANGED normVars

\* Faulty variant of Incompatible: the error names the project directory
\* instead of the lockfile path.
IncompatibleNamesPrefix ==
    /\ pc = "incompatible"
    /\ IF opts.ignoreIncompatible
       THEN /\ warns' = Append(warns, IgnoreWarning(LockfilePath(PkgPath)))
            /\ ReturnFromRead(<<>>, FALSE)
       ELSE /\ Throw("LockfileBreakingChangeError", <<PkgPath>>)
            /\ warns' = warns
    /\ UNCHANGED <<file, opts, lockfile, hadConflicts, i, infos, ret>>
    /\ UNCHANGED normVars

\* Faulty variant of Incompatible: the ignored lockfile is reported with the
\* hadConflicts flag of the attempt instead of false.
IncompatibleKeepsHadConflicts ==
    /\ pc = "incompatible"
    /\ IF opts.ignoreIncompatible
       THEN /\ warns' = Append(warns, IgnoreWarning(LockfilePath(PkgPath)))
            /\ ReturnFromRead(<<>>, hadConflicts)
       ELSE /\ Throw("LockfileBreakingChangeError", LockfilePath(PkgPath))
            /\ warns' = warns
    /\ UNCHANGED <<file, opts, lockfile, hadConflicts, i, infos, ret>>
    /\ UNCHANGED normVars

\* lines 98-102
Incompatible ==
    /\ pc = "incompatible"
    /\ IF opts.ignoreIncompatible
       THEN /\ warns' = Append(warns, IgnoreWarning(LockfilePath(PkgPath)))
            /\ ReturnFromRead(<<>>, FALSE)
       ELSE /\ Throw("LockfileBreakingChangeError", LockfilePath(PkgPath))
            /\ warns' = warns
    /\ UNCHANGED <<file, opts, lockfile, hadConflicts, i, infos, ret>>
    /\ UNCHANGED normVars

\* lines 120-125 (the only candidate name has been tried) and line 28
ReturnWanted ==
    /\ pc = "returned"
    /\ ret' = result.lockfile
    /\ pc' = "done"
    /\ UNCHANGED <<file, opts, lockfile, hadConflicts, i, warns, infos, error, result>>
    /\ UNCHANGED normVars

Next ==
    \/ ReadFile
    \/ TryParse
    \/ CatchParse
    \/ CheckVersion
    \/ SomeCallback
    \/ Incompatible
    \/ ReturnWanted

Spec == Init /\ [][Next]_vars

----------------------------------------------------------------------------
(* The normalizer applied repeatedly to one parsed object *)

NormToken == [kind |-> "str", comps |-> <<6, 0>>]

InitNorm ==
    /\ file = [state |-> "ENOENT", yaml |-> NoValue, diff |-> FALSE, merged |-> NoValue]
    /\ opts = [wantedDefined |-> FALSE, wantedVersions |-> <<>>, ignoreIncompatible |-> FALSE]
    /\ pc = "norm"
    /\ lockfile = <<>>
    /\ hadConflicts = FALSE
    /\ i = 0
    /\ warns = <<>>
    /\ infos = <<>>
    /\ error = NoError
    /\ result = NoResult
    /\ ret = <<>>
    /\ ninput \in AllShapes(NormToken)
    /\ ndoc = ninput
    /\ nfirst = ninput
    /\ napplied = 0

Normalize ==
    /\ pc = "norm"
    /\ napplied < MaxApply
    /\ ndoc' = convertFromLockfileFileMutable(ndoc)
    /\ nfirst' = IF napplied = 0 THEN ndoc' ELSE nfirst
    /\ napplied' = napplied + 1
    /\ UNCHANGED ninput
    /\ UNCHANGED readVars

NextNorm == Normalize

SpecNorm == InitNorm /\ [][NextNorm]_vars

----------------------------------------------------------------------------
(* Vocabulary of the properties, in terms of the inputs and the outcome *)

Finished == pc \in {"done", "threw"}

Readable == file.state = "ok"

\* the first attempt (parse and normalize) yields a document
ParseOK == Readable /\ ~file.yaml.throws /\ file.yaml.value # <<>>

\* the first attempt failed and the merge collaborator produced a document
Recovered == Readable /\ ~ParseOK /\ file.diff /\ ~file.merged.throws

DocObtained == ParseOK \/ Recovered

\* the merge collaborator was asked and failed
RecoveryFailed == Readable /\ ~ParseOK /\ file.diff /\ file.merged.throws

\* the token of the document the file yields
InputToken ==
    IF ParseOK THEN file.yaml.value[1].lockfileVersion
    ELSE file.merged.value[1].lockfileVersion

\* expansion of a compact version to MAJOR.MINOR.PATCH
Expand(c) == IF Len(c) = 1 THEN <<c[1], 0, 0>> ELSE <<c[1], c[2], 0>>

InputExpanded ==
    CASE InputToken.kind = "missing" -> <<0, 0, 0>>
      [] InputToken.kind = "str" -> Expand(InputToken.comps)
      [] InputToken.kind = "num" -> <<InputToken.comps[1], InputToken.comps[2], 0>>

Exceeds(a, b) ==
    \/ a[1] > b[1]
    \/ a[1] = b[1] /\ a[2] > b[2]
    \/ a[1] = b[1] /\ a[2] = b[2] /\ a[3] > b[3]

Wanted == opts.wantedVersions

SameMajorAt(k) == InputExpanded[1] = Expand(Wanted[k])[1]

ExceedsAt(k) == Exceeds(InputExpanded, Expand(Wanted[k]))

NoMajorMatch == \A k \in 1..Len(Wanted) : ~SameMajorAt(k)

SomeMajorMatch == \E k \in 1..Len(Wanted) : SameMajorAt(k)

DocumentReturned == pc = "done" /\ ret # <<>> /\ ret = lockfile

AbsentReturned == pc = "done" /\ ret = <<>>

DowngradeLogged == \E k \in 1..Len(warns) : warns[k].msg = "downgrade"

IgnoringLogged == \E k \in 1..Len(warns) : warns[k].msg = "ignoring"

BreakingChangeRaised == pc = "threw" /\ error.kind = "LockfileBreakingChangeError"

----------------------------------------------------------------------------
(* Properties of the read pipeline *)

\* C1: a read that obtains a document, with a non-empty wantedVersions none
\* of whose entries has the document's major, and ignoreIncompatible false,
\* returns nothing and ends in a LockfileBreakingChangeError naming the
\* lockfile path.
C1_BreakingChange ==
    (DocObtained /\ Len(Wanted) > 0 /\ NoMajorMatch /\ ~opts.ignoreIncompatible)
        => /\ pc # "returned" /\ pc # "done"
           /\ ret = <<>>
           /\ Finished => /\ BreakingChangeRaised
                          /\ error.path = LockfilePath(PkgPath)

C1_Witness ==
    /\ DocObtained /\ Len(Wanted) > 0 /\ NoMajorMatch /\ ~opts.ignoreIncompatible
    /\ BreakingChangeRaised
    /\ InputExpanded[1] = 7

\* C2 as stated: the read returns Absent exactly when the file does not
\* exist, or the file is readable and parses, no wantedVersions entry shares
\* the document's major and ignoreIncompatible is true (with one warning).
C2_AbsentExactlyAsStated ==
    Finished =>
        /\ AbsentReturned <=>
              \/ file.state = "ENOENT"
              \/ ParseOK /\ NoMajorMatch /\ opts.ignoreIncompatible
        /\ (AbsentReturned /\ file.state # "ENOENT") => Len(warns) = 1

\* C2 amended: the read returns Absent exactly when the file does not exist,
\* or a document was obtained (by the parse or by conflict recovery),
\* wantedVersions is non-empty, none of its entries shares the document's
\* major and ignoreIncompatible is true; in that second case exactly one
\* warning, the "Ignoring not compatible lockfile" one, was logged.
C2_AbsentExactly ==
    Finished =>
        /\ AbsentReturned <=>
              \/ file.state = "ENOENT"
              \/ DocObtained /\ Len(Wanted) > 0 /\ NoMajorMatch /\ opts.ignoreIncompatible
        /\ (AbsentReturned /\ file.state # "ENOENT")
              => Len(warns) = 1 /\ warns[1].msg = "ignoring"
        /\ ~AbsentReturned => (DocumentReturned \/ pc = "threw")

C2_Witness ==
    /\ AbsentReturned
    /\ Recovered /\ Len(Wanted) > 0 /\ NoMajorMatch /\ opts.ignoreIncompatible
    /\ IgnoringLogged

\* C3: with wantedVersions absent or empty, a read that obtains a document
\* returns it, logs no warning and raises nothing, whatever ignoreIncompatible.
C3_NoConstraintAccepts ==
    (DocObtained /\ (~opts.wantedDefined \/ Len(Wanted) = 0))
        => /\ warns = <<>>
           /\ pc # "threw"
           /\ error.kind # "LockfileBreakingChangeError"
           /\ Finished => DocumentReturned

C3_Witness ==
    /\ DocObtained /\ ~opts.wantedDefined /\ opts.ignoreIncompatible
    /\ InputToken.kind = "missing"
    /\ DocumentReturned

\* C4 as stated: if some wantedVersions entry, wherever it is in the list,
\* has the token's major and is not exceeded by the expanded token, the
\* document is returned and no downgrade warning is logged.
C4_SomeEntryNotExceeded ==
    (Finished /\ DocObtained
        /\ \E k \in 1..Len(Wanted) : SameMajorAt(k) /\ ~ExceedsAt(k))
        => DocumentReturned /\ ~DowngradeLogged

\* C5: for a token other than the literal '6.1' that exceeds every same-major
\* entry of a list with at least one such entry, the document is returned and
\* the downgrade warning is logged; for the literal '6.1' no downgrade warning
\* is logged and, given a same-major entry, the document is returned.
C5_DowngradeWarning ==
    (Finished /\ DocObtained /\ SomeMajorMatch) =>
        /\ (~(InputToken.kind = "str" /\ InputToken.comps = <<6, 1>>)
              /\ \A k \in 1..Len(Wanted) : SameMajorAt(k) => ExceedsAt(k))
            => DocumentReturned /\ DowngradeLogged
        /\ (InputToken.kind = "str" /\ InputToken.comps = <<6, 1>>)
            => DocumentReturned /\ ~DowngradeLogged

C5_Witness ==
    /\ DocObtained /\ DocumentReturned /\ DowngradeLogged
    /\ InputToken = [kind |-> "num", comps |-> <<6, 1>>]
    /\ Wanted = <<(<<7, 0>>), (<<6, 0>>)>>

C5_WitnessCarveOut ==
    /\ DocObtained /\ DocumentReturned /\ ~DowngradeLogged
    /\ InputToken = [kind |-> "str", comps |-> <<6, 1>>]
    /\ Wanted = <<(<<6, 0>>)>>

\* C8 as stated: every failure to obtain a document from readable text ends
\* in the BROKEN_LOCKFILE error.
C8_FailureIsBrokenLockfile ==
    (Finished /\ Readable /\ ~DocObtained)
        => pc = "threw" /\ error.kind = "BROKEN_LOCKFILE"

\* C9: a returned outcome has hadConflicts true only if the text had conflict
\* markers, the first parse failed and the merge succeeded; a failed recovery
\* ends in an error, never in a returned outcome; an outcome without a
\* document has hadConflicts false.
C9_HadConflicts ==
    /\ pc \in {"returned", "done"} =>
          /\ result.hadConflicts => (file.diff /\ ~ParseOK /\ Recovered)
          /\ result.lockfile = <<>> => ~result.hadConflicts
    /\ RecoveryFailed => (pc \notin {"returned", "done"} /\ result = NoResult)
    /\ (RecoveryFailed /\ Finished) => (pc = "threw" /\ error.kind # "none")

C9_Witness ==
    /\ pc = "done" /\ result.hadConflicts /\ ret # <<>>
    /\ Recovered /\ Len(infos) = 1

C9_WitnessRecoveryFailed == RecoveryFailed /\ pc = "threw"

\* C10: logger.warn is called at most once in a read; a downgrade warning is
\* only logged on a read that returns the document, and never together with
\* the "Ignoring not compatible lockfile" warning or a breaking-change error.
C10_AtMostOneWarning ==
    /\ Len(warns) <= 1
    /\ ~(DowngradeLogged /\ IgnoringLogged)
    /\ DowngradeLogged => (pc \in {"returned", "done"} /\ result.lockfile # <<>>
                           /\ ~BreakingChangeRaised)
    /\ (DowngradeLogged /\ Finished) => DocumentReturned

C10_Witness ==
    /\ DocumentReturned /\ Len(warns) = 1 /\ DowngradeLogged
    /\ Len(Wanted) >= 2
    /\ \A k \in 1..Len(Wanted) : SameMajorAt(k) /\ ExceedsAt(k)

----------------------------------------------------------------------------
(* Properties of the normalizer *)

LegacyFieldsAtRoot(d) ==
    {DEPENDENCIES_FIELDS[k] : k \in {j \in 1..Len(DEPENDENCIES_FIELDS) : d[DEPENDENCIES_FIELDS[j]] # "undef"}}

C7_Idempotent ==
    /\ napplied >= 2 => ndoc = nfirst
    /\ (napplied >= 1 /\ ninput.importers.def) => ndoc = ninput

C7_Witness ==
    /\ napplied >= 2
    /\ ~ninput.importers.def /\ ninput.specifiers = "m" /\ ninput.dependencies = "m"
    /\ ndoc = nfirst /\ ndoc # ninput

C7_WitnessCanonical ==
    napplied >= 1 /\ ninput.importers.def /\ ninput.dependencies = "null" /\ ndoc = ninput

====
